---- MODULE Spec2Model ----
(***************************************************************************)
(* Sky correction over a focal plane (lsst.pipe.drivers.skyCorrection).    *)
(* The master runs SkyCorrectionTask.runDataRef; the slaves run the stage  *)
(* functions (loadImage, accumulateModel, subtractModel, measureSkyFrame,  *)
(* subtractSkyFrame, write and the collect stages) on per-unit caches.     *)
(***************************************************************************)
EXTENDS Integers, Sequences, FiniteSets, TLC

\* ------------------------------------------------------------------ bounds
MaxUnits == 4        \* CCDs of the camera
NumWorkers == 2      \* slave nodes of the pool
NPix == 2            \* pixels of one CCD image
NumCells == 2        \* spatial cells of the focal-plane model
MaxBgOld == 2        \* components of a stored calexpBackground
SmallUnits == 3      \* CCDs of a job in the specifications of smaller jobs
MaxJobs == 2         \* jobs run one after another on the same pool

Ccds == 1..MaxUnits
Workers == 1..NumWorkers
Pixels == 1..NPix
Cells == 1..NumCells

\* ------------------------------------------------------- optional values
None == <<>>
Some(x) == <<x>>
IsSet(o) == o # <<>>
Val(o) == o[1]
Unwrap(res) == [i \in DOMAIN res |-> Val(res[i])]

\* ------------------------------------------------------------ arithmetic
RECURSIVE SumSeq(_)
SumSeq(s) == IF s = <<>> THEN 0 ELSE s[1] + SumSeq(Tail(s))

RECURSIVE SumPix(_, _)
SumPix(img, k) == IF k = 0 THEN 0 ELSE img[k] + SumPix(img, k - 1)

\* floor division that also takes a negative numerator
Quot(a, b) == IF a >= 0 THEN a \div b ELSE -((-a + b - 1) \div b)

Range(s) == {s[k] : k \in DOMAIN s}

\* ------------------------------------------------- afw images, backgrounds
\* A Background is its statistics image, here one level; its realisation
\* over a CCD bounding box is that level at every pixel.  A BackgroundList
\* is a sequence of such levels and getImage() sums the realisations.
BgImage(bgList) == [p \in Pixels |-> SumSeq(bgList)]

ImageMinus(img, other) == [p \in Pixels |-> img[p] - other[p]]

\* afwMath.binImage: the mean of each block of `binning` pixels; one block
\* covers the modelled image.
binImage(img) == Quot(SumPix(img, NPix), NPix)

\* loadImage 216-218: statsImage *= -1 for every component
Negated(bgList) == [k \in DOMAIN bgList |-> -bgList[k]]

\* ------------------------------------------------------------------ state
VARIABLES
    config,       \* SkyCorrectionConfig: doBgModel, doSky, doBgModel2, doMaskObjects
    debug,        \* module flag DEBUG
    butler,       \* data repository: inputs and persisted outputs
    pc,           \* master's position in runDataRef / focalPlaneBackground
    phase,        \* which focalPlaneBackground call is active: "A", "B" or "-"
    dataIdList,   \* master: data identifiers of the CCDs of the exposure
    exposures,    \* master: latest list of binned images
    bgModel,      \* master: focal-plane model of the active phase
    scale,        \* master: solved sky frame scale
    stage,        \* pool: stage function being mapped
    inputs,       \* pool: input list of the current map
    arg,          \* pool: extra stage parameter of the current map
    pending,      \* pool: positions whose result has not returned
    results,      \* pool: results by input position
    route,        \* pool: position -> <<worker, slot>> holding its cache
    cache,        \* slaves: cache[w][slot]
    error,        \* fatal error that ended the job, or "none"
    hist,         \* history: stage functions completed per position
    applied,      \* history: what was subtracted from each position's image
    recv,         \* history: stage parameter each position's call received
    reassigned    \* history: positions a test harness re-routed, and when

vars == <<config, debug, butler, pc, phase, dataIdList, exposures, bgModel,
          scale, stage, inputs, arg, pending, results, route, cache, error,
          hist, applied, recv, reassigned>>

masterVars == <<pc, phase, dataIdList, exposures, bgModel, scale>>
poolVars == <<stage, inputs, arg, pending, results>>
histVars == <<hist, applied, recv, reassigned>>

\* ------------------------------------------------------------------ camera
\* Data identifiers are CCD numbers; a CCD's detector id is its number.
Positions == 1..MaxUnits

\* Spatial cell of the focal-plane model that a detector falls in.
CellOf(det) == ((det - 1) % NumCells) + 1

\* ------------------------------------------------------- data repository
\* Stored calexp of a CCD: a flat sky residual with one bright pixel.
StoredCalexp(c) == [p \in Pixels |-> IF p = NPix THEN 3 * c + 4 ELSE c]

\* Stored calexpBackground of a CCD: between 0 and MaxBgOld components.
StoredBackground(c) == [j \in 1..(c % (MaxBgOld + 1)) |-> c + j]

\* Stored sky frame level of a CCD.
StoredSky(c) == c

Repository(lo) ==
    [ visit            |-> 1,
      exists           |-> lo..MaxUnits,
      calexp           |-> [c \in Ccds |-> StoredCalexp(c)],
      calexpBackground |-> [c \in Ccds |-> StoredBackground(c)],
      sky              |-> [c \in Ccds |-> StoredSky(c)],
      skyCorr          |-> [c \in Ccds |-> None],
      calexp_camera    |-> None,
      debugFiles       |-> {} ]

\* ------------------------------------------------------------ slave cache
EmptyCache ==
    [dataId |-> None, exposure |-> None, bgList |-> None, sky |-> None,
     bgModel |-> None]

NoCaches == [w \in Workers |-> [s \in Positions |-> EmptyCache]]

\* The cache a position's affinity call is run on.
CacheAt(i) == cache[Val(route[i])[1]][Val(route[i])[2]]

\* ---------------------------------------------------------- initial state
DEBUG == FALSE

InitCommon ==
    /\ config \in [doBgModel : BOOLEAN, doSky : BOOLEAN, doBgModel2 : BOOLEAN,
                   doMaskObjects : BOOLEAN]
    /\ butler \in {Repository(lo) : lo \in 1..(MaxUnits + 1)}
    /\ pc = "start"
    /\ phase = "-"
    /\ dataIdList = <<>>
    /\ exposures = <<>>
    /\ bgModel = None
    /\ scale = None
    /\ stage = "-"
    /\ inputs = <<>>
    /\ arg = None
    /\ pending = {}
    /\ results = <<>>
    /\ route = [i \in Positions |-> None]
    /\ cache = NoCaches
    /\ error = "none"
    /\ hist = [i \in Positions |-> <<>>]
    /\ applied = [i \in Positions |-> <<>>]
    /\ recv = [i \in Positions |-> <<>>]
    /\ reassigned = [i \in Positions |-> None]

Init == InitCommon /\ debug = DEBUG

\* --------------------------------------------------------------- the pool
\* pool.map / pool.mapToPrevious: hand the input list to the slaves.
Dispatch(fn, inp, a) ==
    /\ stage' = fn
    /\ inputs' = inp
    /\ arg' = a
    /\ pending' = DOMAIN inp
    /\ results' = [i \in DOMAIN inp |-> None]

\* The map call the master is blocked in has returned its result list.
Returned(fn) == pc = fn /\ stage = fn /\ pending = {} /\ error = "none"

\* A slave may run the stage function on position i.
Runnable(fn, i) == pc = fn /\ stage = fn /\ i \in pending /\ error = "none"

\* Mutant of Return: the result list is filled in the order in which the
\* slaves complete.
Return_completionOrder(i, r) ==
    /\ LET k == CHOOSE k \in DOMAIN results :
                   /\ results[k] = None
                   /\ \A j \in DOMAIN results : j < k => results[j] # None
       IN results' = [results EXCEPT ![k] = Some(r)]
    /\ pending' = pending \ {i}
    /\ UNCHANGED <<stage, inputs, arg>>

\* A slave hands the result of position i back.
Return(i, r) ==
    /\ results' = [results EXCEPT ![i] = Some(r)]
    /\ pending' = pending \ {i}
    /\ UNCHANGED <<stage, inputs, arg>>

\* History: the call of fn on position i completed, on which slave and slot,
\* and the data identifier that cache records.
Done(i, fn) ==
    hist' = [hist EXCEPT ![i] =
                Append(@, [fn |-> fn, at |-> Val(route'[i]),
                           id |-> cache'[Val(route'[i])[1]][Val(route'[i])[2]].dataId])]

\* An exception in a stage function ends the map and the job.
Raise(e) ==
    /\ error' = e
    /\ pc' = "failed"
    /\ UNCHANGED <<config, debug, butler, phase, dataIdList, exposures, bgModel,
                   scale, poolVars, route, cache, histVars>>

\* pool.cacheClear
cacheClear == cache' = NoCaches /\ route' = [i \in Positions |-> None]

\* ------------------------------------------------------ collect (373-390)
\* Mutant of collectBinnedImage: keys the binned image by a value that is
\* not unique to the detector.
collectBinnedImage_sharedKey(exposure, image) ==
    [detId |-> CellOf(exposure.detector), image |-> binImage(image)]

collectBinnedImage(exposure, image) ==
    [detId |-> exposure.detector, image |-> binImage(image)]

collect(c) == collectBinnedImage(Val(c.exposure), Val(c.exposure).image)

\* MaskObjectsTask.findObjects: flag the pixels brighter than the mean.
findObjects(exposure) ==
    [exposure EXCEPT !.mask = {p \in Pixels : exposure.image[p] > binImage(exposure.image)}]

\* ------------------------------------------------- runDataRef (125-134)
RECURSIVE Ascending(_)
Ascending(S) ==
    IF S = {} THEN <<>>
    ELSE LET m == CHOOSE x \in S : \A y \in S : x <= y
         IN <<m>> \o Ascending(S \ {m})

\* Mutant of StartJob: starts the job on the caches as the last job left
\* them.
StartJob_noClear ==
    /\ pc = "start"
    /\ dataIdList' = Ascending(butler.exists)
    /\ Dispatch("loadImage", dataIdList', None)
    /\ pc' = "loadImage"
    /\ UNCHANGED <<config, debug, butler, phase, exposures, bgModel, scale,
                   route, cache, error, histVars>>

StartJob ==
    /\ pc = "start"
    /\ cacheClear
    /\ dataIdList' = Ascending(butler.exists)
    /\ Dispatch("loadImage", dataIdList', None)
    /\ pc' = "loadImage"
    /\ UNCHANGED <<config, debug, butler, phase, exposures, bgModel, scale,
                   error, histVars>>

\* Mutant of loadImage: adds the negated background to the image where the
\* code subtracts it.
loadImage_wrongSign(w, i) ==
    /\ Runnable("loadImage", i)
    /\ LET dataId == inputs[i]
           stored == butler.calexp[dataId]
           bgOld  == Negated(butler.calexpBackground[dataId])
           image  == [p \in Pixels |-> stored[p] + BgImage(bgOld)[p]]
           exp0   == [image |-> image, mask |-> {}, detector |-> dataId]
           exp1   == IF config.doMaskObjects THEN findObjects(exp0) ELSE exp0
           c1     == [cache[w][i] EXCEPT !.dataId = Some(dataId),
                                         !.exposure = Some(exp1),
                                         !.bgList = Some(bgOld)]
       IN /\ cache' = [cache EXCEPT ![w][i] = c1]
          /\ route' = [route EXCEPT ![i] = Some(<<w, i>>)]
          /\ Return(i, collect(c1))
    /\ Done(i, "loadImage")
    /\ UNCHANGED <<config, debug, butler, masterVars, error, applied, recv,
                   reassigned>>

\* ------------------------------------------------- loadImage (193-228)
loadImage(w, i) ==
    /\ Runnable("loadImage", i)
    /\ LET dataId == inputs[i]
           stored == butler.calexp[dataId]
           bgOld  == Negated(butler.calexpBackground[dataId])
           image  == ImageMinus(stored, BgImage(bgOld))
           exp0   == [image |-> image, mask |-> {}, detector |-> dataId]
           exp1   == IF config.doMaskObjects THEN findObjects(exp0) ELSE exp0
           c1     == [cache[w][i] EXCEPT !.dataId = Some(dataId),
                                         !.exposure = Some(exp1),
                                         !.bgList = Some(bgOld)]
       IN /\ cache' = [cache EXCEPT ![w][i] = c1]
          /\ route' = [route EXCEPT ![i] = Some(<<w, i>>)]
          /\ Return(i, collect(c1))
    /\ Done(i, "loadImage")
    /\ UNCHANGED <<config, debug, butler, masterVars, error, applied, recv,
                   reassigned>>

ReturnLoad ==
    /\ Returned("loadImage")
    /\ exposures' = Unwrap(results)
    /\ pc' = IF debug THEN "dbgRestored" ELSE "ifBgModel"
    /\ UNCHANGED <<config, debug, butler, phase, dataIdList, bgModel, scale,
                   poolVars, route, cache, error, histVars>>

\* --------------------------------- FocalPlaneBackground (background.py)
\* Per-cell accumulated statistics: sum of pixel values and pixel count.
fromCamera == [values |-> [c \in Cells |-> 0], numbers |-> [c \in Cells |-> 0]]

clone(m) == [values |-> m.values, numbers |-> m.numbers]

RECURSIVE SumOver(_, _)
SumOver(img, S) ==
    IF S = {} THEN 0
    ELSE LET p == CHOOSE x \in S : TRUE IN img[p] + SumOver(img, S \ {p})

\* addCcd: add the unmasked pixels of the exposure to the detector's cell.
addCcd(m, exposure) ==
    LET cell == CellOf(exposure.detector)
        good == Pixels \ exposure.mask
    IN [values  |-> [m.values EXCEPT ![cell] = @ + SumOver(exposure.image, good)],
        numbers |-> [m.numbers EXCEPT ![cell] = @ + Cardinality(good)]]

\* Mutant of merge: a cell the other model has pixels in replaces the
\* running cell instead of being added to it.
merge_overwrite(m, other) ==
    [values  |-> [c \in Cells |-> IF other.numbers[c] > 0 THEN other.values[c]
                                   ELSE m.values[c]],
     numbers |-> [c \in Cells |-> IF other.numbers[c] > 0 THEN other.numbers[c]
                                   ELSE m.numbers[c]]]

\* merge: add the other model's statistics cell by cell.
merge(m, other) ==
    [values  |-> [c \in Cells |-> m.values[c] + other.values[c]],
     numbers |-> [c \in Cells |-> m.numbers[c] + other.numbers[c]]]

\* toCcdBackground: the model realised for one detector, a BackgroundList
\* of one component.
toCcdBackground(m, detector) ==
    LET cell == CellOf(detector)
    IN <<IF m.numbers[cell] > 0 THEN Quot(m.values[cell], m.numbers[cell]) ELSE 0>>

\* ----------------------------------- SkyMeasurementTask (background.py)
getSkyData(dataId) == butler.sky[dataId]

\* measureScale: level of the image in units of the sky frame.
measureScale(image, sky) == Quot(SumPix(image, NPix), NPix * sky)

\* solveScales: robust combination (the lower median) of the measurements.
solveScales(measScales) ==
    IF measScales = <<>> THEN 0
    ELSE CHOOSE v \in Range(measScales) :
           /\ 2 * Cardinality({k \in DOMAIN measScales : measScales[k] <= v}) >= Len(measScales)
           /\ 2 * Cardinality({k \in DOMAIN measScales : measScales[k] < v}) < Len(measScales)

\* sky.subtractSkyFrame: the scaled sky frame, as a background component.
scaledSky(sky, sc) == sc * sky

\* ------------------------------------------------- stage calls on a cache
\* The slave that position i's affinity call is routed to.
RoutedTo(w, i) == IsSet(route[i]) /\ Val(route[i])[1] = w

\* pool.mapToPrevious: slave w, which works through its own positions in
\* list order, may run the stage function on position i.
Affinity(fn, w, i) ==
    /\ Runnable(fn, i)
    /\ RoutedTo(w, i)
    /\ \A j \in pending : RoutedTo(w, j) => i <= j

\* `assert cache.dataId == dataId`
Matches(c, dataId) == c.dataId = Some(dataId)

SetCache(i, c) ==
    cache' = [cache EXCEPT ![Val(route[i])[1]][Val(route[i])[2]] = c]

\* History of what a stage call took off the cached image.
Subtracted(i, before, after) ==
    applied' = [applied EXCEPT ![i] = Append(@, before[1] - after[1])]

\* History of the stage parameter a call was given.
Received(i) == recv' = [recv EXCEPT ![i] = Append(@, arg)]

\* Mutant of focalPlaneBackground: pairs the clones with the data
\* identifiers taken from the end of the list.
focalPlaneBackground_reversed(ph) ==
    /\ phase' = ph
    /\ bgModel' = Some(fromCamera)
    /\ Dispatch("accumulateModel",
                [i \in DOMAIN dataIdList |->
                    [dataId |-> dataIdList[Len(dataIdList) + 1 - i],
                     bgModel |-> clone(fromCamera)]],
                None)
    /\ pc' = "accumulateModel"

\* ------------------------------------- focalPlaneBackground (164-191)
focalPlaneBackground(ph) ==
    /\ phase' = ph
    /\ bgModel' = Some(fromCamera)
    /\ Dispatch("accumulateModel",
                [i \in DOMAIN dataIdList |->
                    [dataId |-> dataIdList[i], bgModel |-> clone(fromCamera)]],
                None)
    /\ pc' = "accumulateModel"

\* accumulateModel (275-295)
accumulateModel(w, i) ==
    /\ Affinity("accumulateModel", w, i)
    /\ IF Matches(CacheAt(i), inputs[i].dataId)
       THEN /\ Return(i, addCcd(inputs[i].bgModel, Val(CacheAt(i).exposure)))
            /\ UNCHANGED <<config, debug, butler, masterVars, route, cache,
                           error, applied, recv, reassigned>>
            /\ Done(i, "accumulateModel")
       ELSE Raise("AssertionError")

RECURSIVE MergeAll(_, _)
MergeAll(m, list) ==
    IF list = <<>> THEN m ELSE MergeAll(merge(m, list[1]), Tail(list))

\* Mutant of MergeModels: goes on while one position is still outstanding,
\* merging what has come back.
MergeModels_early ==
    /\ pc = "accumulateModel" /\ stage = "accumulateModel" /\ error = "none"
    /\ Cardinality(pending) <= 1
    /\ bgModel' = Some(MergeAll(Val(bgModel), Unwrap(SelectSeq(results, IsSet))))
    /\ Dispatch("subtractModel", dataIdList, bgModel')
    /\ pc' = "subtractModel"
    /\ UNCHANGED <<config, debug, butler, phase, dataIdList, exposures, scale,
                   route, cache, error, histVars>>

\* Mutant of MergeModels: a failed accumulateModel call is skipped and the
\* models that did come back are merged and subtracted.
MergeModels_skipFailed ==
    /\ stage = "accumulateModel"
    /\ Returned("accumulateModel") \/ pc = "failed"
    /\ bgModel' = Some(MergeAll(Val(bgModel), Unwrap(SelectSeq(results, IsSet))))
    /\ Dispatch("subtractModel", dataIdList, bgModel')
    /\ pc' = "subtractModel"
    /\ UNCHANGED <<config, debug, butler, phase, dataIdList, exposures, scale,
                   route, cache, error, histVars>>

\* Mutant of MergeModels: waits until it holds a model for every CCD of the
\* camera, not for every data identifier of the list.
MergeModels_waitsForCamera ==
    /\ Returned("accumulateModel")
    /\ Len(results) = MaxUnits
    /\ bgModel' = Some(MergeAll(Val(bgModel), Unwrap(results)))
    /\ Dispatch("subtractModel", dataIdList, bgModel')
    /\ pc' = "subtractModel"
    /\ UNCHANGED <<config, debug, butler, phase, dataIdList, exposures, scale,
                   route, cache, error, histVars>>

\* Mutant of MergeModels: the running model starts as the first returned
\* model, which is then merged again with the rest.
MergeModels_firstTwice ==
    /\ Returned("accumulateModel")
    /\ bgModel' = Some(IF results = <<>> THEN Val(bgModel)
                       ELSE MergeAll(Val(results[1]), Unwrap(results)))
    /\ Dispatch("subtractModel", dataIdList, bgModel')
    /\ pc' = "subtractModel"
    /\ UNCHANGED <<config, debug, butler, phase, dataIdList, exposures, scale,
                   route, cache, error, histVars>>

\* 188-191: merge the returned models in list order, map subtractModel
MergeModels ==
    /\ Returned("accumulateModel")
    /\ bgModel' = Some(MergeAll(Val(bgModel), Unwrap(results)))
    /\ Dispatch("subtractModel", dataIdList, bgModel')
    /\ pc' = "subtractModel"
    /\ UNCHANGED <<config, debug, butler, phase, dataIdList, exposures, scale,
                   route, cache, error, histVars>>

\* Mutant of subtractModel: subtracts the model but does not record it in
\* the background list.
subtractModel_noAppend(w, i) ==
    /\ Affinity("subtractModel", w, i)
    /\ IF Matches(CacheAt(i), inputs[i])
       THEN LET c0       == CacheAt(i)
                exposure == Val(c0.exposure)
                ccdBg    == toCcdBackground(Val(arg), exposure.detector)
                image    == ImageMinus(exposure.image, BgImage(ccdBg))
                c1       == [c0 EXCEPT
                               !.bgModel = Some(ccdBg),
                               !.exposure = Some([exposure EXCEPT !.image = image])]
            IN /\ SetCache(i, c1)
               /\ Return(i, collect(c1))
               /\ Subtracted(i, exposure.image, image)
               /\ Received(i)
               /\ UNCHANGED <<config, debug, butler, masterVars, route, error,
                              reassigned>>
               /\ Done(i, "subtractModel")
       ELSE Raise("AssertionError")

\* Mutant of subtractModel: clears, in the model it was handed, the cell it
\* has just projected.
subtractModel_mutates(w, i) ==
    /\ Affinity("subtractModel", w, i)
    /\ IF Matches(CacheAt(i), inputs[i])
       THEN LET c0       == CacheAt(i)
                exposure == Val(c0.exposure)
                ccdBg    == toCcdBackground(Val(arg), exposure.detector)
                image    == ImageMinus(exposure.image, BgImage(ccdBg))
                c1       == [c0 EXCEPT
                               !.bgModel = Some(ccdBg),
                               !.exposure = Some([exposure EXCEPT !.image = image]),
                               !.bgList = Some(Append(Val(c0.bgList), ccdBg[1]))]
            IN /\ SetCache(i, c1)
               /\ results' = [results EXCEPT ![i] = Some(collect(c1))]
               /\ pending' = pending \ {i}
               /\ arg' = Some([Val(arg) EXCEPT
                                 !.values[CellOf(exposure.detector)] = 0,
                                 !.numbers[CellOf(exposure.detector)] = 0])
               /\ Subtracted(i, exposure.image, image)
               /\ Received(i)
               /\ UNCHANGED <<config, debug, butler, masterVars, route, error,
                              reassigned, stage, inputs>>
               /\ Done(i, "subtractModel")
       ELSE Raise("AssertionError")

\* subtractModel (297-324)
subtractModel(w, i) ==
    /\ Affinity("subtractModel", w, i)
    /\ IF Matches(CacheAt(i), inputs[i])
       THEN LET c0       == CacheAt(i)
                exposure == Val(c0.exposure)
                ccdBg    == toCcdBackground(Val(arg), exposure.detector)
                image    == ImageMinus(exposure.image, BgImage(ccdBg))
                c1       == [c0 EXCEPT
                               !.bgModel = Some(ccdBg),
                               !.exposure = Some([exposure EXCEPT !.image = image]),
                               !.bgList = Some(Append(Val(c0.bgList), ccdBg[1]))]
            IN /\ SetCache(i, c1)
               /\ Return(i, collect(c1))
               /\ Subtracted(i, exposure.image, image)
               /\ Received(i)
               /\ UNCHANGED <<config, debug, butler, masterVars, route, error,
                              reassigned>>
               /\ Done(i, "subtractModel")
       ELSE Raise("AssertionError")

\* 191, then back in runDataRef (143 or 156)
ReturnSubtractModel ==
    /\ Returned("subtractModel")
    /\ exposures' = Unwrap(results)
    /\ pc' = IF phase = "A" THEN "ifSky" ELSE "assemble"
    /\ phase' = "-"
    /\ bgModel' = None
    /\ UNCHANGED <<config, debug, butler, dataIdList, scale, poolVars, route,
                   cache, error, histVars>>

\* Mutant of IfBgModel: runs phase A whatever doBgModel says.
IfBgModel_always ==
    /\ pc = "ifBgModel"
    /\ focalPlaneBackground("A")
    /\ UNCHANGED <<config, debug, butler, dataIdList, exposures, scale, route,
                   cache, error, histVars>>

\* runDataRef 142-143
IfBgModel ==
    /\ pc = "ifBgModel"
    /\ IF config.doBgModel
       THEN focalPlaneBackground("A")
       ELSE pc' = "ifSky" /\ UNCHANGED <<phase, bgModel, poolVars>>
    /\ UNCHANGED <<config, debug, butler, dataIdList, exposures, scale, route,
                   cache, error, histVars>>

\* Mutant of IfBgModel2: tests doBgModel instead of doBgModel2.
IfBgModel2_wrongToggle ==
    /\ pc = "ifBgModel2"
    /\ IF config.doBgModel
       THEN focalPlaneBackground("B")
       ELSE pc' = "assemble" /\ UNCHANGED <<phase, bgModel, poolVars>>
    /\ UNCHANGED <<config, debug, butler, dataIdList, exposures, scale, route,
                   cache, error, histVars>>

\* runDataRef 155-156
IfBgModel2 ==
    /\ pc = "ifBgModel2"
    /\ IF config.doBgModel2
       THEN focalPlaneBackground("B")
       ELSE pc' = "assemble" /\ UNCHANGED <<phase, bgModel, poolVars>>
    /\ UNCHANGED <<config, debug, butler, dataIdList, exposures, scale, route,
                   cache, error, histVars>>

\* runDataRef 145-146
IfSky ==
    /\ pc = "ifSky"
    /\ IF config.doSky
       THEN Dispatch("measureSkyFrame", dataIdList, None) /\ pc' = "measureSkyFrame"
       ELSE pc' = "ifBgModel2" /\ UNCHANGED poolVars
    /\ UNCHANGED <<config, debug, butler, phase, dataIdList, exposures, bgModel,
                   scale, route, cache, error, histVars>>

\* Mutant of measureSkyFrame: fetches the sky frame of the first CCD of the
\* list for every position.
measureSkyFrame_firstSky(w, i) ==
    /\ Affinity("measureSkyFrame", w, i)
    /\ IF Matches(CacheAt(i), inputs[i])
       THEN LET c0  == CacheAt(i)
                sky == getSkyData(inputs[1])
            IN /\ SetCache(i, [c0 EXCEPT !.sky = Some(sky)])
               /\ Return(i, measureScale(Val(c0.exposure).image, sky))
               /\ UNCHANGED <<config, debug, butler, masterVars, route, error,
                              applied, recv, reassigned>>
               /\ Done(i, "measureSkyFrame")
       ELSE Raise("AssertionError")

\* measureSkyFrame (230-250)
measureSkyFrame(w, i) ==
    /\ Affinity("measureSkyFrame", w, i)
    /\ IF Matches(CacheAt(i), inputs[i])
       THEN LET c0  == CacheAt(i)
                sky == getSkyData(inputs[i])
            IN /\ SetCache(i, [c0 EXCEPT !.sky = Some(sky)])
               /\ Return(i, measureScale(Val(c0.exposure).image, sky))
               /\ UNCHANGED <<config, debug, butler, masterVars, route, error,
                              applied, recv, reassigned>>
               /\ Done(i, "measureSkyFrame")
       ELSE Raise("AssertionError")

\* runDataRef 147-149
SolveScales ==
    /\ Returned("measureSkyFrame")
    /\ scale' = Some(solveScales(Unwrap(results)))
    /\ Dispatch("subtractSkyFrame", dataIdList, scale')
    /\ pc' = "subtractSkyFrame"
    /\ UNCHANGED <<config, debug, butler, phase, dataIdList, exposures, bgModel,
                   route, cache, error, histVars>>

\* Mutant of subtractSkyFrame: subtracts the scaled sky frame but records
\* the unscaled one in the background list.
subtractSkyFrame_unscaledEntry(w, i) ==
    /\ Affinity("subtractSkyFrame", w, i)
    /\ IF Matches(CacheAt(i), inputs[i])
       THEN LET c0       == CacheAt(i)
                exposure == Val(c0.exposure)
                bg       == scaledSky(Val(c0.sky), Val(arg))
                image    == ImageMinus(exposure.image, BgImage(<<bg>>))
                c1       == [c0 EXCEPT
                               !.exposure = Some([exposure EXCEPT !.image = image]),
                               !.bgList = Some(Append(Val(c0.bgList), Val(c0.sky)))]
            IN /\ SetCache(i, c1)
               /\ Return(i, collect(c1))
               /\ Subtracted(i, exposure.image, image)
               /\ Received(i)
               /\ UNCHANGED <<config, debug, butler, masterVars, route, error,
                              reassigned>>
               /\ Done(i, "subtractSkyFrame")
       ELSE Raise("AssertionError")

\* subtractSkyFrame (252-273)
subtractSkyFrame(w, i) ==
    /\ Affinity("subtractSkyFrame", w, i)
    /\ IF Matches(CacheAt(i), inputs[i])
       THEN LET c0       == CacheAt(i)
                exposure == Val(c0.exposure)
                bg       == scaledSky(Val(c0.sky), Val(arg))
                image    == ImageMinus(exposure.image, BgImage(<<bg>>))
                c1       == [c0 EXCEPT
                               !.exposure = Some([exposure EXCEPT !.image = image]),
                               !.bgList = Some(Append(Val(c0.bgList), bg))]
            IN /\ SetCache(i, c1)
               /\ Return(i, collect(c1))
               /\ Subtracted(i, exposure.image, image)
               /\ Received(i)
               /\ UNCHANGED <<config, debug, butler, masterVars, route, error,
                              reassigned>>
               /\ Done(i, "subtractSkyFrame")
       ELSE Raise("AssertionError")

\* runDataRef 149-150
ReturnSubtractSky ==
    /\ Returned("subtractSkyFrame")
    /\ exposures' = Unwrap(results)
    /\ pc' = IF debug THEN "dbgSkysub" ELSE "ifBgModel2"
    /\ UNCHANGED <<config, debug, butler, phase, dataIdList, bgModel, scale,
                   poolVars, route, cache, error, histVars>>

\* makeCameraImage (17-34): a dict of the non-None (detector id, binned
\* image) pairs, laid out by detector; a later pair replaces an earlier one
\* with the same detector id.
makeCameraImage(exps) ==
    LET ids == {exps[k].detId : k \in DOMAIN exps}
        last(d) == CHOOSE k \in DOMAIN exps :
                     /\ exps[k].detId = d
                     /\ \A j \in DOMAIN exps : exps[j].detId = d => j <= k
    IN [d \in ids |-> exps[last(d)].image]

\* Mutant of Assemble: maps write without having persisted the camera image.
Assemble_noPut ==
    /\ pc = "assemble"
    /\ Dispatch("write", dataIdList, None)
    /\ pc' = "write"
    /\ UNCHANGED <<config, debug, butler, phase, dataIdList, exposures, bgModel,
                   scale, route, cache, error, histVars>>

\* runDataRef 158-162
Assemble ==
    /\ pc = "assemble"
    /\ butler' = [butler EXCEPT !.calexp_camera = Some(makeCameraImage(exposures))]
    /\ Dispatch("write", dataIdList, None)
    /\ pc' = "write"
    /\ UNCHANGED <<config, debug, phase, dataIdList, exposures, bgModel, scale,
                   route, cache, error, histVars>>

\* write (459-471)
write(w, i) ==
    /\ Affinity("write", w, i)
    /\ butler' = [butler EXCEPT !.skyCorr[inputs[i]] = Some(Val(CacheAt(i).bgList))]
    /\ Return(i, "None")
    /\ UNCHANGED <<config, debug, masterVars, route, cache, error, applied, recv,
                   reassigned>>
    /\ Done(i, "write")

\* runDataRef 162: the last map returns and the job is over
ReturnWrite ==
    /\ Returned("write")
    /\ pc' = "done"
    /\ UNCHANGED <<config, debug, butler, phase, dataIdList, exposures, bgModel,
                   scale, poolVars, route, cache, error, histVars>>

\* ----------------------------------------------------------- the program
Master ==
    \/ StartJob
    \/ ReturnLoad
    \/ IfBgModel
    \/ MergeModels
    \/ ReturnSubtractModel
    \/ IfSky
    \/ SolveScales
    \/ ReturnSubtractSky
    \/ IfBgModel2
    \/ Assemble
    \/ ReturnWrite

Slaves ==
    \E w \in Workers, i \in Positions :
        \/ loadImage(w, i)
        \/ accumulateModel(w, i)
        \/ subtractModel(w, i)
        \/ measureSkyFrame(w, i)
        \/ subtractSkyFrame(w, i)
        \/ write(w, i)

Next == Master \/ Slaves

Spec == Init /\ [][Next]_vars

\* ------------------------------------------- debugging outputs (DEBUG)
DebugFile(name, exps) ==
    butler' = [butler EXCEPT !.debugFiles = @ \cup {<<name, makeCameraImage(exps)>>}]

\* runDataRef 136-137
DebugRestored ==
    /\ pc = "dbgRestored"
    /\ DebugFile("restored", exposures)
    /\ Dispatch("collectOriginal", dataIdList, None)
    /\ pc' = "collectOriginal"
    /\ UNCHANGED <<config, debug, phase, dataIdList, exposures, bgModel, scale,
                   route, cache, error, histVars>>

\* collectOriginal (392-412)
collectOriginal(w, i) ==
    /\ Affinity("collectOriginal", w, i)
    /\ LET exposure == [image |-> butler.calexp[inputs[i]], mask |-> {},
                        detector |-> inputs[i]]
       IN Return(i, collectBinnedImage(exposure, exposure.image))
    /\ UNCHANGED <<config, debug, butler, masterVars, route, cache, error,
                   applied, recv, reassigned>>
    /\ Done(i, "collectOriginal")

\* runDataRef 137-139
ReturnCollectOriginal ==
    /\ Returned("collectOriginal")
    /\ exposures' = Unwrap(results)
    /\ DebugFile("original", exposures')
    /\ Dispatch("collectMask", dataIdList, None)
    /\ pc' = "collectMask"
    /\ UNCHANGED <<config, debug, phase, dataIdList, bgModel, scale, route,
                   cache, error, histVars>>

\* collectMask (435-457): the mask plane as a floating-point image
collectMask(w, i) ==
    /\ Affinity("collectMask", w, i)
    /\ LET exposure == Val(CacheAt(i).exposure)
           image    == [p \in Pixels |-> IF p \in exposure.mask THEN 1 ELSE 0]
       IN Return(i, collectBinnedImage(exposure, image))
    /\ UNCHANGED <<config, debug, butler, masterVars, route, cache, error,
                   applied, recv, reassigned>>
    /\ Done(i, "collectMask")

\* runDataRef 139-140
ReturnCollectMask ==
    /\ Returned("collectMask")
    /\ exposures' = Unwrap(results)
    /\ DebugFile("mask", exposures')
    /\ pc' = "ifBgModel"
    /\ UNCHANGED <<config, debug, phase, dataIdList, bgModel, scale, poolVars,
                   route, cache, error, histVars>>

\* runDataRef 151-152
DebugSkysub ==
    /\ pc = "dbgSkysub"
    /\ DebugFile("skysub", exposures)
    /\ Dispatch("collectSky", dataIdList, None)
    /\ pc' = "collectSky"
    /\ UNCHANGED <<config, debug, phase, dataIdList, exposures, bgModel, scale,
                   route, cache, error, histVars>>

\* collectSky (414-433)
collectSky(w, i) ==
    /\ Affinity("collectSky", w, i)
    /\ LET c == CacheAt(i)
       IN Return(i, collectBinnedImage(Val(c.exposure), BgImage(c.sky)))
    /\ UNCHANGED <<config, debug, butler, masterVars, route, cache, error,
                   applied, recv, reassigned>>
    /\ Done(i, "collectSky")

\* runDataRef 152-153
ReturnCollectSky ==
    /\ Returned("collectSky")
    /\ DebugFile("sky", Unwrap(results))
    /\ pc' = "ifBgModel2"
    /\ UNCHANGED <<config, debug, phase, dataIdList, exposures, bgModel, scale,
                   poolVars, route, cache, error, histVars>>

DebugMaster ==
    \/ DebugRestored
    \/ ReturnCollectOriginal
    \/ ReturnCollectMask
    \/ DebugSkysub
    \/ ReturnCollectSky

DebugSlaves ==
    \E w \in Workers, i \in Positions :
        \/ collectOriginal(w, i)
        \/ collectMask(w, i)
        \/ collectSky(w, i)

\* The program built with DEBUG set either way.
InitDebug == InitCommon /\ debug \in BOOLEAN

NextDebug == Next \/ DebugMaster \/ DebugSlaves

SpecDebug == InitDebug /\ [][NextDebug]_vars

\* ------------------------------------------------- routing test harness
\* Between two stages a harness exchanges the cache slots that two positions
\* of the list are routed to (simulated worker reassignment), once per job.
BetweenStages ==
    /\ pending = {}
    /\ error = "none"
    /\ pc \notin {"start", "done", "failed"}

Reassign(i, j) ==
    /\ BetweenStages
    /\ i \in DOMAIN dataIdList /\ j \in DOMAIN dataIdList /\ i < j
    /\ \A k \in Positions : reassigned[k] = None
    /\ route' = [route EXCEPT ![i] = route[j], ![j] = route[i]]
    /\ reassigned' = [reassigned EXCEPT
                        ![i] = Some([from |-> Val(route[i]), done |-> Len(hist[i])]),
                        ![j] = Some([from |-> Val(route[j]), done |-> Len(hist[j])])]
    /\ UNCHANGED <<config, debug, butler, masterVars, poolVars, cache, error,
                   hist, applied, recv>>

Harness == \E i \in Positions, j \in Positions : Reassign(i, j)

NextHarness == Next \/ Harness

SpecHarness == Init /\ [][NextHarness]_vars

\* ------------------------------------------------ jobs one after another
\* The command-line runner calls runDataRef for one exposure after another
\* on the same pool.  The butler of the next exposure: another visit, with
\* its own stored images and its own set of CCDs that have a calexp.
Exposure(v, lo) ==
    [Repository(lo) EXCEPT
        !.visit = v,
        !.calexp = [c \in Ccds |-> [p \in Pixels |-> StoredCalexp(c)[p] + (v - 1)]]]

SmallJob(b) == Cardinality(b.exists) <= SmallUnits

\* runDataRef has returned; the runner calls it for the next exposure.  The
\* master's local variables are gone, the pool is idle, the slaves' caches
\* are as the job left them.  (An exposure without any calexp leaves nothing
\* behind and is taken to be the last.)
NextJob ==
    /\ pc = "done"
    /\ butler.visit < MaxJobs
    /\ dataIdList # <<>>
    /\ \E lo \in 1..(MaxUnits + 1) :
          /\ SmallJob(Exposure(butler.visit + 1, lo))
          /\ butler' = Exposure(butler.visit + 1, lo)
    /\ pc' = "start"
    /\ phase' = "-"
    /\ dataIdList' = <<>>
    /\ exposures' = <<>>
    /\ bgModel' = None
    /\ scale' = None
    /\ stage' = "-"
    /\ inputs' = <<>>
    /\ arg' = None
    /\ pending' = {}
    /\ results' = <<>>
    /\ hist' = [i \in Positions |-> <<>>]
    /\ applied' = [i \in Positions |-> <<>>]
    /\ recv' = [i \in Positions |-> <<>>]
    /\ reassigned' = [i \in Positions |-> None]
    /\ UNCHANGED <<config, debug, route, cache, error>>

InitSmall == Init /\ SmallJob(butler)

NextJobs == Next \/ NextJob

SpecJobs == InitSmall /\ [][NextJobs]_vars

\* ---------------------------------------------------- failing stage calls
\* The call of the mapped stage function on position i is under way on
\* slave w (any slave for the stateless map of loadImage).
Running(w, i) ==
    IF stage = "loadImage" THEN Runnable(stage, i) ELSE Affinity(stage, w, i)

\* The stage functions that read from or write to the butler.
StorageStages == {"loadImage", "measureSkyFrame", "write"}

\* A butler get or put inside the stage function raises; nothing in
\* runDataRef catches it.
StorageFails(w, i) ==
    /\ stage \in StorageStages
    /\ Running(w, i)
    /\ Raise("IOError")

\* The slave dies in the middle of a stage call.
WorkerFails(w, i) ==
    /\ stage # "-"
    /\ Running(w, i)
    /\ Raise("WorkerFailure")

Failures ==
    \E w \in Workers, i \in Positions : StorageFails(w, i) \/ WorkerFails(w, i)

NextFail == Next \/ Failures

SpecFail == InitSmall /\ [][NextFail]_vars

\* Fair scheduling: the master goes on whenever it can, and a slave that has
\* a stage call to run runs it; each call returns unless it fails.
SpecLive == InitSmall /\ [][NextFail]_vars /\ WF_vars(Next)

\* The program built with DEBUG set either way, on the smaller jobs.
InitDebugSmall == InitDebug /\ SmallJob(butler)

SpecDebugSmall == InitDebugSmall /\ [][NextDebug]_vars

\* The routing harness on the smaller jobs.
SpecReroute == InitSmall /\ [][NextHarness]_vars

\* ===================================================== checked properties
Units == DOMAIN dataIdList

\* Names of the stage functions completed on position i, oldest first.
Names(i) == [k \in DOMAIN hist[i] |-> hist[i][k].fn]

Count(i, fns) == Cardinality({k \in DOMAIN hist[i] : hist[i][k].fn \in fns})

IsPrefix(a, b) == Len(a) <= Len(b) /\ \A k \in DOMAIN a : a[k] = b[k]

Loaded(i) == i \in Units /\ IsSet(route[i]) /\ IsSet(CacheAt(i).exposure)

CachedImage(i) == Val(CacheAt(i).exposure).image

CachedBgList(i) == Val(CacheAt(i).bgList)

StoredBg(i) == butler.calexpBackground[dataIdList[i]]

\* The image loadImage is meant to leave: the stored image with the stored
\* background put back.
Restored(c) == [p \in Pixels |-> butler.calexp[c][p] + SumSeq(butler.calexpBackground[c])]

\* ------------------------------------------------------------------- C1
\* C1: no stage call completes normally on a cache whose recorded data
\* identifier differs from the dispatched one: every completed call ran on a
\* cache recording the data identifier of its own position, and what is
\* persisted for a CCD is the list of that CCD's own cache.
C1_NoStageCompletesOnMismatch ==
    /\ \A i \in Units : \A k \in DOMAIN hist[i] : hist[i][k].id = Some(dataIdList[i])
    /\ \A i \in Units :
         IsSet(butler.skyCorr[dataIdList[i]]) /\ IsSet(route[i]) =>
            CacheAt(i).dataId = Some(dataIdList[i])

\* ------------------------------------------------------------------- C2
\* C2: in a job the harness leaves alone, every stage of a position is
\* served by the same slave and cache slot and no two caches record the same
\* data identifier; and once a harness has re-routed a position to another
\* slave, no further stage completes on it (the next one raises).
C2_AffinityOrError ==
    /\ (\A k \in Positions : reassigned[k] = None) =>
         /\ \A i \in Units : \A k, l \in DOMAIN hist[i] : hist[i][k].at = hist[i][l].at
         /\ \A w1, w2 \in Workers : \A s1, s2 \in Positions :
              (IsSet(cache[w1][s1].dataId)
                 /\ cache[w1][s1].dataId = cache[w2][s2].dataId)
                 => (w1 = w2 /\ s1 = s2)
    /\ \A i \in Units :
         (IsSet(reassigned[i]) /\ Val(reassigned[i]).from[1] # Val(route[i])[1])
            => Len(hist[i]) = Val(reassigned[i]).done

\* ------------------------------------------------------------------- C3
\* C3: every stage is a barrier.  No position is more than one stage ahead
\* of another; the positions still pending are exactly one stage behind the
\* ones that have returned; and the master's merged model, solved scale and
\* assembled image exist only once every position has returned from the
\* stage that feeds them.
C3_StageBarrier ==
    /\ \A i, j \in Units :
         /\ (i \in pending /\ j \notin pending) => Len(hist[j]) = Len(hist[i]) + 1
         /\ (i \in pending <=> j \in pending) => Len(hist[j]) = Len(hist[i])
    /\ stage = "subtractModel" =>
         \A i \in Units :
            Count(i, {"accumulateModel"})
               = Count(i, {"subtractModel"}) + (IF i \in pending THEN 1 ELSE 0)
    /\ IsSet(scale) => \A i \in Units : Count(i, {"measureSkyFrame"}) = 1
    /\ IsSet(butler.calexp_camera) =>
         \A i \in Units :
            Count(i, {"loadImage"}) = 1
            /\ Count(i, {"accumulateModel"}) = Count(i, {"subtractModel"})
            /\ Count(i, {"measureSkyFrame"}) = Count(i, {"subtractSkyFrame"})

\* C3 witness: a stage in progress on two slaves, one position returned and
\* another still pending.
C3_Witness ==
    /\ stage = "subtractModel"
    /\ \E i, j \in Units :
         /\ i \in pending /\ j \notin pending
         /\ Val(route[i])[1] # Val(route[j])[1]

\* ------------------------------------------------------------------- C4
ExpectedStages ==
    <<"loadImage">>
    \o (IF config.doBgModel THEN <<"accumulateModel", "subtractModel">> ELSE <<>>)
    \o (IF config.doSky THEN <<"measureSkyFrame", "subtractSkyFrame">> ELSE <<>>)
    \o (IF config.doBgModel2 THEN <<"accumulateModel", "subtractModel">> ELSE <<>>)
    \o <<"write">>

\* C4: for every setting of the three toggles the stages completed on a
\* position are a prefix of Load, [Accumulate, Subtract], [Measure,
\* Subtract], [Accumulate, Subtract], Write, all of it when the job is done,
\* and all of them ran on the one cache that Load filled.
C4_StageOrder ==
    \A i \in Positions :
       /\ i \notin Units => hist[i] = <<>>
       /\ i \in Units =>
            /\ IsPrefix(Names(i), ExpectedStages)
            /\ pc = "done" => Names(i) = ExpectedStages
            /\ \A k \in DOMAIN hist[i] : hist[i][k].at = hist[i][1].at

\* C4 witness: a finished job of several CCDs with all three phases enabled.
C4_Witness ==
    /\ pc = "done"
    /\ config.doBgModel /\ config.doSky /\ config.doBgModel2
    /\ Len(dataIdList) >= 2
    /\ \A i \in Units : Len(hist[i]) = Len(ExpectedStages)

\* ------------------------------------------------------------------- C5
\* C5: at every point a loaded position's background list is the negated
\* stored background followed by exactly what has been subtracted from its
\* cached image so far, one entry per completed subtraction, in order; when
\* the job is done it has one entry per enabled phase and none for a
\* disabled one.
C5_BgListIsAppliedHistory ==
    \A i \in Units :
       Loaded(i) =>
          /\ CachedBgList(i) = Negated(StoredBg(i)) \o applied[i]
          /\ Len(applied[i]) = Count(i, {"subtractModel", "subtractSkyFrame"})
          /\ pc = "done" =>
               Len(CachedBgList(i)) = Len(StoredBg(i))
                  + (IF config.doBgModel THEN 1 ELSE 0)
                  + (IF config.doSky THEN 1 ELSE 0)
                  + (IF config.doBgModel2 THEN 1 ELSE 0)

\* C5 witness: a finished job with phase A and the sky frame applied, phase
\* B skipped, on a CCD with a stored background.
C5_Witness ==
    /\ pc = "done"
    /\ config.doBgModel /\ config.doSky /\ ~config.doBgModel2
    /\ \E i \in Units :
         /\ Len(StoredBg(i)) = 2
         /\ Len(applied[i]) = 2
         /\ applied[i][1] # applied[i][2]

\* ------------------------------------------------------------------- C6
FinalBgList(i) == Val(butler.skyCorr[dataIdList[i]])

\* C6 as stated: when the job is done, subtracting the sum of a position's
\* final background list from its cached image gives back the image from
\* before the pipeline (the stored image, or read generously the image with
\* its stored background put back).
C6_SubtractSumRestores ==
    pc = "done" =>
       \A i \in Units :
          LET back == ImageMinus(CachedImage(i), BgImage(FinalBgList(i)))
          IN back = butler.calexp[dataIdList[i]] \/ back = Restored(dataIdList[i])

\* C6 amended: when the job is done, adding the sum of a position's final
\* background list to its cached image gives back the stored image, pixel by
\* pixel, for every setting of the toggles.
C6_AddSumRestoresStored ==
    pc = "done" =>
       \A i \in Units : \A p \in Pixels :
          CachedImage(i)[p] + SumSeq(FinalBgList(i)) = butler.calexp[dataIdList[i]][p]

\* C6 witness: a finished job with a position whose list has stored and new
\* components and does not sum to zero.
C6_Witness ==
    /\ pc = "done"
    /\ \E i \in Units :
         /\ Len(StoredBg(i)) >= 1
         /\ Len(applied[i]) >= 2
         /\ SumSeq(FinalBgList(i)) # 0

\* ------------------------------------------------------------------- C7
OnlyPhaseA == config.doBgModel /\ ~config.doSky /\ ~config.doBgModel2

\* C7 as stated: a finished job of 4 CCDs with only phase A enabled has
\* persisted exactly 2 entries for every CCD and its camera image has one
\* region for each of the 4 CCDs.
C7_TwoEntriesFourRegions ==
    (pc = "done" /\ Len(dataIdList) = 4 /\ OnlyPhaseA) =>
       /\ \A i \in Units : Len(FinalBgList(i)) = 2
       /\ DOMAIN Val(butler.calexp_camera) = Range(dataIdList)
       /\ Cardinality(DOMAIN Val(butler.calexp_camera)) = 4

\* C7 amended: in that job every CCD's persisted list is the negated stored
\* background, however many components it has, followed by the phase-A
\* component projected for that CCD (2 entries exactly when the stored
\* background has 1 component), and the camera image has one region for each
\* of the 4 CCDs.
C7_StoredPlusOneFourRegions ==
    (pc = "done" /\ Len(dataIdList) = 4 /\ OnlyPhaseA) =>
       /\ \A i \in Units :
            /\ Len(FinalBgList(i)) = Len(StoredBg(i)) + 1
            /\ SubSeq(FinalBgList(i), 1, Len(StoredBg(i))) = Negated(StoredBg(i))
            /\ <<FinalBgList(i)[Len(FinalBgList(i))]>> = Val(CacheAt(i).bgModel)
            /\ Len(StoredBg(i)) = 1 => Len(FinalBgList(i)) = 2
       /\ DOMAIN Val(butler.calexp_camera) = Range(dataIdList)
       /\ Cardinality(DOMAIN Val(butler.calexp_camera)) = 4

\* C7 witness: the finished 4-CCD job with only phase A, with stored
\* backgrounds of one component and of other sizes.
C7_Witness ==
    /\ pc = "done" /\ Len(dataIdList) = 4 /\ OnlyPhaseA
    /\ \E i \in Units : Len(StoredBg(i)) = 1 /\ Len(FinalBgList(i)) = 2
    /\ \E i \in Units : Len(StoredBg(i)) # 1

\* ------------------------------------------------------------------- C8
NoPhases == ~config.doBgModel /\ ~config.doSky /\ ~config.doBgModel2

\* C8: with all three phases disabled a finished job has run only loadImage
\* and write on every position, the cached image is the restored image, the
\* persisted list is the negated stored background that loadImage set up,
\* and the persisted camera image is made of the binned restored images.
C8_AllPhasesDisabled ==
    (pc = "done" /\ NoPhases) =>
       /\ \A i \in Units :
            /\ Names(i) = <<"loadImage", "write">>
            /\ CachedImage(i) = Restored(dataIdList[i])
            /\ butler.skyCorr[dataIdList[i]] = Some(Negated(StoredBg(i)))
       /\ butler.calexp_camera
            = Some([d \in Range(dataIdList) |-> binImage(Restored(d))])

\* C8 witness: a finished job of several CCDs with every phase disabled.
C8_Witness ==
    /\ pc = "done" /\ NoPhases
    /\ Len(dataIdList) >= 3
    /\ \E i \in Units : Restored(dataIdList[i]) # butler.calexp[dataIdList[i]]

\* ------------------------------------------------------------------- C9
Orders(S) == {f \in [S -> S] : \A a, b \in S : f[a] = f[b] => a = b}

\* C9: when the master merges the returned models and maps subtractModel,
\* the model it passes on equals the merge of the same returned models taken
\* in any other order.
C9_MergeOrderIndependent ==
    [][(pc = "accumulateModel" /\ pc' = "subtractModel") =>
          \A f \in Orders(Units) :
             Val(arg') = MergeAll(fromCamera, [k \in Units |-> Val(results[f[k]])])]_vars

\* C9 witness: a merged model made from at least three different returned
\* models, with more than one contribution in one cell, is being subtracted.
C9_Witness ==
    /\ pc = "subtractModel"
    /\ Len(dataIdList) >= 3
    /\ \A c \in Cells : Val(arg).numbers[c] > 0
    /\ \E c \in Cells : Val(arg).values[c] # 0

\* ------------------------------------------------------------------ C10
LastReceived(i) == recv[i][Len(recv[i])]

\* C10: while a Subtract stage is mapped, from the merge (or the solve) to
\* the return of the map, no step changes the master's model (or scale) or
\* the parameter the pool hands out, the parameter is the master's value,
\* and every position that has run Subtract received that same value.
C10_ParametersImmutable ==
    [][/\ (pc = "subtractModel" /\ pc' = "subtractModel") =>
             (bgModel' = bgModel /\ arg' = arg)
       /\ (pc = "subtractSkyFrame" /\ pc' = "subtractSkyFrame") =>
             (scale' = scale /\ arg' = arg)
       /\ pc' = "subtractModel" =>
             /\ IsSet(bgModel') /\ arg' = bgModel'
             /\ \A i \in Units \ pending' : recv'[i][Len(recv'[i])] = bgModel'
       /\ pc' = "subtractSkyFrame" =>
             /\ IsSet(scale') /\ arg' = scale'
             /\ \A i \in Units \ pending' : recv'[i][Len(recv'[i])] = scale'
      ]_vars

\* C10 witness: phase B's Subtract under way after a sky-frame Subtract, two
\* positions already served with the same model and one still pending.
C10_Witness ==
    /\ pc = "subtractModel" /\ phase = "B"
    /\ IsSet(scale)
    /\ pending # {}
    /\ \E i, j \in Units \ pending :
         /\ i # j
         /\ LastReceived(i) = bgModel /\ LastReceived(j) = bgModel
         /\ recv[i][Len(recv[i]) - 1] = scale

\* ------------------------------------------------------------------ C11
\* Every field a cache slot holds was written by a stage of the running job:
\* the slot is the one a position of this job's list is routed to, loadImage
\* of this job filled it from this exposure's data, and a sky frame or a
\* projected model in it comes from a stage this job has completed on it.
WrittenByThisJob(w, s) ==
    cache[w][s] # EmptyCache =>
       \E i \in Units :
          /\ route[i] = Some(<<w, s>>)
          /\ hist[i] # <<>> /\ hist[i][1].fn = "loadImage"
          /\ cache[w][s].dataId = Some(dataIdList[i])
          /\ \A p \in Pixels :
                Val(cache[w][s].exposure).image[p] + SumSeq(Val(cache[w][s].bgList))
                   = butler.calexp[dataIdList[i]][p]
          /\ IsSet(cache[w][s].sky) =>
                /\ Count(i, {"measureSkyFrame"}) = 1
                /\ cache[w][s].sky = Some(butler.sky[dataIdList[i]])
          /\ IsSet(cache[w][s].bgModel) => Count(i, {"subtractModel"}) >= 1

LoadBegins == pc = "loadImage" /\ \A i \in Positions : hist[i] = <<>>

\* C11: in every job of a sequence run on one pool, the step that begins the
\* job clears every cache and every route before it dispatches Load, no
\* other step empties a cache, so when Load begins no cache holds any field,
\* and from then on every field of every cache was written by the running
\* job.
C11_CacheClearedPerJob ==
    [][/\ pc = "start" =>
             (pc' = "loadImage" /\ cache' = NoCaches
                /\ route' = [i \in Positions |-> None])
       /\ pc # "start" =>
             \A w \in Workers, s \in Positions :
                cache[w][s] # EmptyCache => cache'[w][s] # EmptyCache
       /\ LoadBegins' => cache' = NoCaches
       /\ pc' # "start" =>
             \A w \in Workers, s \in Positions : WrittenByThisJob(w, s)'
      ]_vars

\* C11 witness: a later job, following one that filled caches, is under way
\* on caches it has filled itself with the sky frame and a projected model.
C11_Witness ==
    /\ butler.visit = 2
    /\ pc = "write"
    /\ Len(dataIdList) >= 2
    /\ \A i \in Units : IsSet(CacheAt(i).sky) /\ IsSet(CacheAt(i).bgModel)
    /\ \E w \in Workers, s \in Positions : cache[w][s] = EmptyCache

\* ------------------------------------------------------------------ C12
Failed == error # "none"

\* C12: when a stage call fails (storage error or dead slave) the job is
\* failed and stays so: the failing step itself hands no result back and
\* persists nothing, and after it there is no further step at all: no
\* dispatch, no result taken from the unit that failed or from the others,
\* no merge, no solve, no camera image or background list persisted.  A job
\* that failed before Write has persisted no camera image.
C12_FailureEndsJob ==
    [][/\ Failed' => pc' = "failed"
       /\ (~Failed /\ Failed') =>
             /\ pending' = pending /\ pending # {}
             /\ results' = results /\ butler' = butler
       /\ Failed =>
             /\ stage' = stage /\ inputs' = inputs /\ arg' = arg
             /\ pending' = pending /\ results' = results
             /\ bgModel' = bgModel /\ scale' = scale /\ exposures' = exposures
             /\ butler' = butler
       /\ (Failed' /\ stage' # "write") =>
             (butler'.calexp_camera = None
                /\ \A c \in Ccds : butler'.skyCorr[c] = None)
      ]_vars

\* C12 witness: a job failed on a storage error in measureSkyFrame after
\* phase A, with one position returned and another not.
C12_Witness ==
    /\ pc = "failed" /\ error = "IOError"
    /\ stage = "measureSkyFrame"
    /\ config.doBgModel
    /\ \E i, j \in Units : i \in pending /\ j \notin pending
    /\ butler.calexp_camera = None

\* ------------------------------------------------------------------ C13
BeforeWrite == SubSeq(ExpectedStages, 1, Len(ExpectedStages) - 1)

EnabledPhases ==
    (IF config.doBgModel THEN 1 ELSE 0) + (IF config.doSky THEN 1 ELSE 0)
       + (IF config.doBgModel2 THEN 1 ELSE 0)

\* C13: Write is the last stage.  The step that maps write finds the camera
\* image persisted, every enabled stage completed on every position and no
\* list persisted yet; nothing is mapped after write and no stage runs on a
\* position after its write; a list is persisted only by the write of the
\* position of that CCD, at most once, and it is the negated stored
\* background followed by one component per enabled phase, as applied; when
\* the job is done every CCD of the job has its list persisted.
C13_WriteLast ==
    [][/\ (pc # "write" /\ pc' = "write") =>
             /\ IsSet(butler'.calexp_camera)
             /\ \A i \in Units : Names(i) = BeforeWrite
             /\ \A c \in Ccds : butler.skyCorr[c] = None
       /\ stage = "write" => stage' = "write"
       /\ \A i \in Units :
             Count(i, {"write"}) = 1 =>
                (hist'[i] = hist[i]
                   /\ butler'.skyCorr[dataIdList[i]] = butler.skyCorr[dataIdList[i]])
       /\ \A c \in Ccds :
             IsSet(butler'.skyCorr[c]) =>
                \E i \in Units :
                   /\ dataIdList[i] = c
                   /\ Names(i)' = ExpectedStages
                   /\ butler'.skyCorr[c] = Some(Negated(StoredBg(i)) \o applied[i])
                   /\ Len(applied[i]) = EnabledPhases
       /\ pc' = "done" =>
             \A i \in Units : IsSet(butler'.skyCorr[dataIdList[i]])
      ]_vars

\* C13 witness: a finished job with several CCDs written, lists of different
\* lengths, each with the components of all three phases.
C13_Witness ==
    /\ pc = "done"
    /\ EnabledPhases = 3
    /\ \E i, j \in Units :
         /\ Len(FinalBgList(i)) # Len(FinalBgList(j))
         /\ Len(FinalBgList(i)) = Len(StoredBg(i)) + 3
         /\ Len(FinalBgList(j)) = Len(StoredBg(j)) + 3
    /\ IsSet(butler.calexp_camera)

\* ------------------------------------------------------------------ C14
\* What the stage function mapped now returns for position i, from the cache
\* of position i as the call left it.
ResultOf(i) ==
    CASE stage = "accumulateModel" ->
            addCcd(fromCamera, Val(CacheAt(i).exposure))
      [] stage = "measureSkyFrame" ->
            measureScale(CachedImage(i), butler.sky[dataIdList[i]])
      [] stage = "write" -> "None"
      [] OTHER ->
            [detId |-> dataIdList[i], image |-> binImage(CachedImage(i))]

\* C14: the result list of a map has one place for each input, and the
\* result at place i is the one of input i whichever positions returned
\* first; so the master merges the models, and passes the scale
\* measurements to the solver, in the order of dataIdList, and the binned
\* images it keeps are in that order too.
C14_ResultsInInputOrder ==
    [][/\ stage' # "-" =>
             /\ DOMAIN results' = DOMAIN dataIdList'
             /\ \A i \in DOMAIN results' :
                   IsSet(results'[i]) <=> i \notin pending'
             /\ \A i \in DOMAIN results' :
                   IsSet(results'[i]) => results'[i] = Some(ResultOf(i)')
       /\ (pc = "accumulateModel" /\ pc' = "subtractModel") =>
             arg' = Some(MergeAll(fromCamera,
                           [i \in DOMAIN dataIdList |->
                               addCcd(fromCamera, Val(CacheAt(i).exposure))]))
       /\ (pc = "measureSkyFrame" /\ pc' = "subtractSkyFrame") =>
             scale' = Some(solveScales(
                           [i \in DOMAIN dataIdList |->
                               measureScale(CachedImage(i), butler.sky[dataIdList[i]])]))
       /\ \A i \in DOMAIN exposures' : exposures'[i].detId = dataIdList'[i]
      ]_vars

\* C14 witness: during Measure a later position has returned while the
\* first has not, and its measurement is not the one the first position
\* will return.
C14_Witness ==
    /\ stage = "measureSkyFrame"
    /\ 1 \in pending
    /\ \E j \in Units :
         /\ j > 1 /\ j \notin pending
         /\ results[j] # Some(measureScale(CachedImage(1), butler.sky[dataIdList[1]]))

\* ------------------------------------------------------------------ C15
\* Sum and count of the unmasked pixels of the image position i holds now.
GoodPixels(i) == Pixels \ Val(CacheAt(i).exposure).mask

GoodSum(i) == SumOver(CachedImage(i), GoodPixels(i))

\* The contribution of position i alone: its unmasked pixels in the cell of
\* its detector, nothing in any other cell.
OwnContribution(i) ==
    [values  |-> [c \in Cells |->
                    IF c = CellOf(dataIdList[i]) THEN GoodSum(i) ELSE 0],
     numbers |-> [c \in Cells |->
                    IF c = CellOf(dataIdList[i]) THEN Cardinality(GoodPixels(i)) ELSE 0]]

RECURSIVE CellValue(_, _)
CellValue(S, c) ==
    IF S = {} THEN 0
    ELSE LET i == CHOOSE x \in S : TRUE
         IN (IF CellOf(dataIdList[i]) = c THEN GoodSum(i) ELSE 0)
               + CellValue(S \ {i}, c)

RECURSIVE CellNumber(_, _)
CellNumber(S, c) ==
    IF S = {} THEN 0
    ELSE LET i == CHOOSE x \in S : TRUE
         IN (IF CellOf(dataIdList[i]) = c THEN Cardinality(GoodPixels(i)) ELSE 0)
               + CellNumber(S \ {i}, c)

\* C15: in phase A and in phase B, in every job of a sequence: while
\* Accumulate is mapped the master's running model is the empty model and
\* every position is handed the empty model; the model a position returns
\* holds that position's unmasked pixels and nothing else; and the model the
\* master passes to Subtract holds, cell by cell, the pixels of every
\* position of the job as they are in this phase, each counted once.
C15_MergeComplete ==
    [][/\ pc' = "accumulateModel" =>
             /\ bgModel' = Some(fromCamera)
             /\ DOMAIN inputs' = DOMAIN dataIdList'
             /\ \A i \in DOMAIN inputs' : inputs'[i].bgModel = fromCamera
             /\ \A i \in DOMAIN results' :
                   IsSet(results'[i]) => results'[i] = Some(OwnContribution(i)')
       /\ (pc = "accumulateModel" /\ pc' = "subtractModel") =>
             /\ arg' = bgModel'
             /\ Val(arg') =
                   [values  |-> [c \in Cells |-> CellValue(Units, c)],
                    numbers |-> [c \in Cells |-> CellNumber(Units, c)]]
      ]_vars

\* C15 witness: phase B of a second job is subtracting a model in which one
\* cell holds the pixels of two positions, after phase A changed the images.
C15_Witness ==
    /\ butler.visit = 2
    /\ pc = "subtractModel" /\ phase = "B" /\ pending = Units
    /\ config.doBgModel
    /\ Len(dataIdList) = 3
    /\ \E c \in Cells : Val(arg).numbers[c] > NPix
    /\ \E i \in Units : applied[i] # <<>> /\ applied[i][1] # 0

\* ------------------------------------------------------------------ C16
\* Place of the first call of fn in the history of position i (0 if none).
FirstAt(i, fn) ==
    IF \E k \in DOMAIN hist[i] : hist[i][k].fn = fn
    THEN CHOOSE k \in DOMAIN hist[i] :
            /\ hist[i][k].fn = fn
            /\ \A j \in DOMAIN hist[i] : hist[i][j].fn = fn => k <= j
    ELSE 0

\* The cache that loadImage filled for the CCD of position i.
OwnCache(i) ==
    LET at == CHOOSE ws \in Workers \X Positions :
                 cache[ws[1]][ws[2]].dataId = Some(dataIdList[i])
    IN cache[at[1]][at[2]]

\* C16: in the sky-frame phase, also when a harness re-routes positions: the
\* scale is solved when every position has returned exactly one measurement,
\* from those measurements, one per position; and a sky-frame Subtract that
\* completes on a position comes after the Measure of that position, ran on
\* the same cache, found there the sky frame of its own CCD and took off the
\* image that frame times the solved scale.
C16_SkyFramePhase ==
    [][/\ (pc = "measureSkyFrame" /\ pc' = "subtractSkyFrame") =>
             /\ \A i \in Units : Count(i, {"measureSkyFrame"}) = 1
             /\ Len(Unwrap(results)) = Len(dataIdList)
             /\ scale' = Some(solveScales(
                     [i \in DOMAIN dataIdList |->
                         measureScale(Val(OwnCache(i).exposure).image,
                                      butler.sky[dataIdList[i]])]))
       /\ pc' = "subtractSkyFrame" => IsSet(scale')
       /\ \A i \in Units :
             Count(i, {"subtractSkyFrame"})' > Count(i, {"subtractSkyFrame"}) =>
                /\ Count(i, {"subtractSkyFrame"})' = 1
                /\ Count(i, {"measureSkyFrame"}) = 1
                /\ hist'[i][Len(hist'[i])].at = hist[i][FirstAt(i, "measureSkyFrame")].at
                /\ CacheAt(i).dataId = Some(dataIdList[i])
                /\ CacheAt(i).sky = Some(butler.sky[dataIdList[i]])
                /\ applied'[i][Len(applied'[i])]
                      = butler.sky[dataIdList[i]] * Val(scale)
      ]_vars

\* C16 witness: the sky frame, scaled by a solved scale that is not zero, has
\* been subtracted on one position and not yet on another whose sky frame is
\* a different one.
C16_Witness ==
    /\ pc = "subtractSkyFrame"
    /\ Val(scale) # 0
    /\ \E i, j \in Units :
         /\ i \notin pending /\ j \in pending
         /\ CacheAt(i).sky # CacheAt(j).sky
         /\ applied[i][Len(applied[i])] = Val(CacheAt(i).sky) * Val(scale)

\* ------------------------------------------------------------------ C17
\* C17: with DEBUG set either way and for every setting of the toggles, the
\* camera image the master persists has one region for each CCD of the job,
\* and the region of a CCD is the binned image its cache holds at that
\* point: after the last correction applied, or the restored image when no
\* phase ran.
C17_PreviewOfCurrentImages ==
    IsSet(butler.calexp_camera) =>
       /\ DOMAIN Val(butler.calexp_camera) = Range(dataIdList)
       /\ \A i \in Units :
             Val(butler.calexp_camera)[dataIdList[i]] = binImage(CachedImage(i))
       /\ NoPhases =>
             \A i \in Units :
                Val(butler.calexp_camera)[dataIdList[i]] = binImage(Restored(dataIdList[i]))

\* ------------------------------------------------------------------ C18
\* C18: in every state, from the return of loadImage on and through every
\* later stage, for every setting of the toggles:
\* the image a position's cache holds plus the sum of the entries of its
\* background list is the stored calexp, pixel by pixel.
C18_ImagePlusListIsStored ==
    \A i \in Units :
       Loaded(i) =>
          \A p \in Pixels :
             CachedImage(i)[p] + SumSeq(CachedBgList(i)) = butler.calexp[dataIdList[i]][p]

\* C18 witness: between two stages, after phase A and the sky frame were
\* subtracted and before phase B, a position holds an image that is neither
\* the stored nor the restored one.
C18_Witness ==
    /\ pc = "accumulateModel" /\ phase = "B"
    /\ \E i \in Units :
         /\ Len(applied[i]) = 2
         /\ applied[i][1] # 0 /\ applied[i][2] # 0
         /\ Len(StoredBg(i)) >= 1
         /\ CachedImage(i) # butler.calexp[dataIdList[i]]
         /\ CachedImage(i) # Restored(dataIdList[i])

\* ------------------------------------------------------------------ C19
\* The data identifier in the input at place k of the mapped list.
UnitOfInput(k) ==
    IF stage = "accumulateModel" THEN inputs[k].dataId ELSE inputs[k]

\* C19: the list handed to every map of a job, the debugging maps included,
\* has the length of dataIdList and the data identifier of dataIdList[k] at
\* place k (inside a struct for accumulateModel); loadImage was given that
\* same list, so in every affinity map place k is routed to the cache that
\* loadImage filled for that data identifier, the one every earlier stage of
\* place k ran on.
C19_SameListEveryDispatch ==
    stage # "-" =>
       /\ Len(inputs) = Len(dataIdList)
       /\ \A k \in DOMAIN inputs :
             /\ UnitOfInput(k) = dataIdList[k]
             /\ hist[k] # <<>> =>
                   /\ hist[k][1].fn = "loadImage"
                   /\ hist[k][1].id = Some(dataIdList[k])
                   /\ \A j \in DOMAIN hist[k] : hist[k][j].at = hist[k][1].at
             /\ stage # "loadImage" =>
                   /\ IsSet(route[k])
                   /\ Val(route[k]) = hist[k][1].at
                   /\ CacheAt(k).dataId = Some(UnitOfInput(k))

\* C19 witness: with DEBUG set, phase B's Accumulate is mapped on a list of
\* three structs after the debugging maps and the sky-frame phase have run
\* on every position.
C19_Witness ==
    /\ debug
    /\ stage = "accumulateModel" /\ phase = "B" /\ pending # {}
    /\ Len(inputs) = 3
    /\ \A k \in DOMAIN inputs :
         /\ Count(k, {"collectOriginal", "collectMask", "collectSky"}) = 3
         /\ inputs[k] = [dataId |-> dataIdList[k], bgModel |-> fromCamera]
    /\ inputs[1].dataId # inputs[3].dataId

\* ------------------------------------------------------------------ C20
\* Place of the master in runDataRef, in program order.
Rank ==
    CASE pc = "start" -> 0
      [] pc = "loadImage" -> 1
      [] pc = "ifBgModel" -> 2
      [] pc = "accumulateModel" /\ phase = "A" -> 3
      [] pc = "subtractModel" /\ phase = "A" -> 4
      [] pc = "ifSky" -> 5
      [] pc = "measureSkyFrame" -> 6
      [] pc = "subtractSkyFrame" -> 7
      [] pc = "ifBgModel2" -> 8
      [] pc = "accumulateModel" /\ phase = "B" -> 9
      [] pc = "subtractModel" /\ phase = "B" -> 10
      [] pc = "assemble" -> 11
      [] pc = "write" -> 12
      [] pc = "done" -> 13
      [] pc = "failed" -> 14
      [] OTHER -> 15

JobOver == pc = "done" \/ pc = "failed"

\* C20: under fair scheduling, with stage calls that return or fail, the job
\* ends: the master reaches the end of runDataRef, with write completed once
\* on every position, or the job has failed; it is never left waiting in a
\* map; and the master only moves forward, so no stage is mapped twice.
C20_JobEnds ==
    /\ <>JobOver
    /\ [](pc = "done" => \A i \in Units : Count(i, {"write"}) = 1)
    /\ [][pc' # pc => Rank' > Rank]_vars
    /\ [][JobOver => pc' = pc]_vars

\* C20 witness: a job of the largest size with every phase enabled has ended
\* with write completed on every position.
C20_Witness ==
    /\ pc = "done" /\ error = "none"
    /\ Len(dataIdList) = SmallUnits
    /\ EnabledPhases = 3
    /\ \A i \in Units : hist[i][Len(hist[i])].fn = "write"
    /\ pending = {}

====
